---- MODULE Spec2Model ----
(***************************************************************************)
(* The Express application of server.js: /auth/register, /auth/login, the  *)
(* bearer-token middleware mounted on /products, and the five product      *)
(* handlers, each a single parameterised SQL statement against the pool.   *)
(* A request is handled in two steps: its synchronous prefix up to the     *)
(* first await (middleware, validation), and the continuation that runs    *)
(* when the awaited statement has been executed by the database.           *)
(***************************************************************************)
EXTENDS Integers, FiniteSets, Sequences, TLC

\* ------------------------------------------------------------------ bounds
MaxProducts == 2
MaxUsers == 2
MaxTime == 8
MaxInFlight == 2

\* expiresIn: "7d", the clock of the model counts days
ExpiresIn == 7
\* bcrypt.hash(password, 10)
HashCost == 10

\* ------------------------------------------------- JSON values of a body
JUndef == [t |-> "undefined", s |-> "", n |-> 0]
JNull == [t |-> "null", s |-> "", n |-> 0]
JStr(s) == [t |-> "string", s |-> s, n |-> 0]
JNum(n) == [t |-> "number", s |-> "", n |-> n]
JBool(b) == [t |-> "boolean", s |-> "", n |-> IF b THEN 1 ELSE 0]

\* the strings the model sends that read as a number, with their value
NumericStrings == {"", "1", "-1"}
StringToNumber(s) == CASE s = "" -> 0 [] s = "1" -> 1 [] s = "-1" -> 0 - 1 [] OTHER -> 0

\* JavaScript ToNumber: undefined and non-numeric strings are NaN, null is 0
ToNumber(v) ==
  CASE v.t = "undefined" -> [nan |-> TRUE, n |-> 0]
    [] v.t = "null" -> [nan |-> FALSE, n |-> 0]
    [] v.t = "boolean" -> [nan |-> FALSE, n |-> v.n]
    [] v.t = "number" -> [nan |-> FALSE, n |-> v.n]
    [] OTHER -> IF v.s \in NumericStrings
                THEN [nan |-> FALSE, n |-> StringToNumber(v.s)]
                ELSE [nan |-> TRUE, n |-> 0]

\* JavaScript truthiness: !v is ~Truthy(v)
Truthy(v) ==
  CASE v.t = "undefined" -> FALSE
    [] v.t = "null" -> FALSE
    [] v.t = "boolean" -> v.n = 1
    [] v.t = "number" -> v.n # 0
    [] OTHER -> v.s # ""

IsNaN(v) == ToNumber(v).nan

\* price < 0: both sides to numbers, false when either is NaN
LessThanZero(v) == ~ToNumber(v).nan /\ ToNumber(v).n < 0

\* !name || typeof name !== "string"
InvalidName(name) == ~Truthy(name) \/ name.t # "string"

\* isNaN(price) || price < 0
InvalidPrice(price) == IsNaN(price) \/ LessThanZero(price)

\* ------------------------------------------------------- the database
\* a value of the price column: NULL or a number
NullPrice == [null |-> TRUE, n |-> 0]
NumPrice(n) == [null |-> FALSE, n |-> n]
NoRow == [id |-> 0, name |-> "", price |-> NullPrice]

\* the driver's parameter for the numeric column price: null and undefined are
\* sent as NULL, a number as its digits, a boolean as 'true'/'false', a string
\* as it is; the server rejects text that is no number
PriceParam(v) ==
  CASE v.t \in {"undefined", "null"} -> [err |-> FALSE, val |-> NullPrice]
    [] v.t = "number" -> [err |-> FALSE, val |-> NumPrice(v.n)]
    [] v.t = "boolean" -> [err |-> TRUE, val |-> NullPrice]
    [] OTHER -> IF v.s \in NumericStrings \ {""}
                THEN [err |-> FALSE, val |-> NumPrice(StringToNumber(v.s))]
                ELSE [err |-> TRUE, val |-> NullPrice]

\* req.params.id is text of the path: digits, or text that is no integer
PathId(n) == [digits |-> TRUE, n |-> n]
NonNumericId == [digits |-> FALSE, n |-> 0]
NoId == [digits |-> TRUE, n |-> 0]

\* ------------------------------------------------------------ tokens
NoToken == [userId |-> 0, iat |-> 0, exp |-> 0, sig |-> "none"]

\* jwt.sign({userId}, JWT_SECRET, {expiresIn: "7d"}) at clock value t
JwtSignMutant(userId, t) ==
  [userId |-> userId, iat |-> t, exp |-> t + ExpiresIn + 1, sig |-> "secret"]
JwtSign(userId, t) ==
  [userId |-> userId, iat |-> t, exp |-> t + ExpiresIn, sig |-> "secret"]

\* jwt.verify(token, JWT_SECRET) at clock value t: the signature is the
\* secret's and the clock has not reached exp
JwtVerify(tok, t) == tok.sig = "secret" /\ t < tok.exp

\* the Authorization header: absent, present without the "Bearer " prefix,
\* or "Bearer <token>"
NoHeader == [scheme |-> "none", tok |-> NoToken]
BasicHeader == [scheme |-> "basic", tok |-> NoToken]
Bearer(tok) == [scheme |-> "bearer", tok |-> tok]

\* tokens no login issued: text that is no JWT, and a JWT signed with another key
GarbageToken == [userId |-> 0, iat |-> 0, exp |-> 0, sig |-> "garbage"]
ForgedToken ==
  [userId |-> 1, iat |-> 0, exp |-> MaxTime + ExpiresIn + 1, sig |-> "other"]

\* authMiddleware: what it answers, or next() with req.userId
AuthMiddleware(hdr, t) ==
  IF hdr.scheme # "bearer"
  THEN [next |-> FALSE, status |-> 401, msg |-> "Unauthorized", userId |-> 0]
  ELSE IF JwtVerify(hdr.tok, t)
       THEN [next |-> TRUE, status |-> 0, msg |-> "", userId |-> hdr.tok.userId]
       ELSE [next |-> FALSE, status |-> 401, msg |-> "Invalid token", userId |-> 0]

\* app.use("/products", authMiddleware): the routes the middleware runs before
ProductKinds == {"list", "get", "create", "update", "delete"}
ProtectedMutant(kind) == kind \in ProductKinds \ {"delete"}
Protected(kind) == kind \in ProductKinds

\* the middleware chain of a route, as authMiddleware's answer
Gate(kind, hdr, t) ==
  IF Protected(kind) THEN AuthMiddleware(hdr, t)
  ELSE [next |-> TRUE, status |-> 0, msg |-> "", userId |-> 0]

\* ----------------------------------------------------------- passwords
\* bcrypt.hash(password, 10) of a string, and bcrypt.compare(password, hash)
NoHash == [cost |-> 0, of |-> ""]
BcryptHash(pw) == [cost |-> HashCost, of |-> pw.s]
BcryptCompare(pw, hash) == hash.cost = HashCost /\ hash.of = pw.s
\* both reject with "Illegal arguments" when the password is no string
BcryptRejects(pw) == pw.t # "string"

\* ------------------------------------------------------------- state
VARIABLES
  products,       \* the rows of table products
  nextProductId,  \* the sequence behind products.id
  users,          \* the rows of table users
  nextUserId,     \* the sequence behind users.id
  now,            \* the clock jwt reads, in days
  held,           \* the token the latest successful login handed out
  heldFor,        \* the email that login was for
  inflight,       \* per slot, the request awaiting its statement
  last,           \* the response sent by the latest step, if it sent one
  delRan,         \* ids a DELETE ran on, without error, once they were generated
  delOk           \* per id, delete requests answered with success (up to 2)

vars == <<products, nextProductId, users, nextUserId, now, held, heldFor,
          inflight, last, delRan, delOk>>

\* a request: its route, header, path parameter and body, and what the
\* middleware attached (req.userId) and when
NoReq ==
  [kind |-> "none", hdr |-> NoHeader, id |-> NoId, name |-> JUndef,
   price |-> JUndef, email |-> JUndef, password |-> JUndef,
   userId |-> 0, authAt |-> 0]

\* a response: status 0 with a request means the request ended unanswered
Resp(req, status, msg, row, token, ran, failed) ==
  [req |-> req, status |-> status, msg |-> msg, row |-> row, rows |-> {},
   user |-> [id |-> 0, email |-> ""],
   token |-> token, ran |-> ran, failed |-> failed]
NoResp == Resp(NoReq, 0, "", NoRow, NoToken, FALSE, FALSE)

Slots == 1..MaxInFlight
Busy == {s \in Slots : inflight[s] # NoReq}
Free(cap) == Cardinality(Busy) < cap
FreeSlot ==
  CHOOSE s \in Slots :
    inflight[s] = NoReq /\ \A r \in Slots : r < s => inflight[r] # NoReq

Ids == 1..MaxProducts
Init ==
  /\ products = {}
  /\ nextProductId = 1
  /\ users = {}
  /\ nextUserId = 1
  /\ now = 0
  /\ held = NoToken
  /\ heldFor = ""
  /\ inflight = [s \in Slots |-> NoReq]
  /\ last = NoResp
  /\ delRan = {}
  /\ delOk = [i \in Ids |-> 0]

\* ---------------------------------------------------- request inputs
\* the headers a client can send: none, one without the "Bearer " prefix, a
\* bearer of text that is no JWT, of a JWT signed with another key, or of the
\* token a login handed out
HeadersOf(kinds) ==
  (IF "none" \in kinds THEN {NoHeader} ELSE {})
    \cup (IF "basic" \in kinds THEN {BasicHeader} ELSE {})
    \cup (IF "garbage" \in kinds THEN {Bearer(GarbageToken)} ELSE {})
    \cup (IF "forged" \in kinds THEN {Bearer(ForgedToken)} ELSE {})
    \cup (IF "held" \in kinds /\ held # NoToken THEN {Bearer(held)} ELSE {})
PathIds == {PathId(n) : n \in 1..MaxProducts} \cup {NonNumericId}

\* the requests of the clients of a scenario: how many may be in flight at
\* once and what they send
BodyInputs ==
  [cap |-> 1,
   hdrs |-> {"held"},
   ids |-> PathIds,
   names |-> {JUndef, JStr(""), JStr("a"), JStr("b"), JBool(TRUE)},
   prices |-> {JUndef, JNull, JNum(0 - 1), JNum(1), JStr("1"), JStr("x"), JBool(TRUE)},
   emails |-> {JStr("a")},
   passwords |-> {JStr("p")}]
AuthInputs ==
  [cap |-> 1,
   hdrs |-> {"none", "basic", "garbage", "forged", "held"},
   ids |-> {PathId(1)},
   names |-> {JStr("a")},
   prices |-> {JNum(1)},
   emails |-> {JStr("a"), JStr("b")},
   passwords |-> {JStr("p")}]
LoginInputs ==
  [cap |-> 1,
   hdrs |-> {},
   ids |-> {},
   names |-> {},
   prices |-> {},
   emails |-> {JUndef, JStr("a"), JStr("b")},
   passwords |-> {JUndef, JStr(""), JNum(5), JStr("p"), JStr("q")}]
RegisterInputs ==
  [cap |-> MaxInFlight,
   hdrs |-> {},
   ids |-> {},
   names |-> {},
   prices |-> {},
   emails |-> {JUndef, JStr("a"), JStr("b")},
   passwords |-> {JUndef, JStr("p")}]
ConcInputs ==
  [cap |-> MaxInFlight,
   hdrs |-> {"held"},
   ids |-> {PathId(n) : n \in 1..MaxProducts},
   names |-> {JStr("a"), JStr("b")},
   prices |-> {JNum(1)},
   emails |-> {JStr("a")},
   passwords |-> {JStr("p")}]

\* ------------------------------------------------- what a step leaves
Quiet == UNCHANGED <<delRan, delOk>>
AuthSame == UNCHANGED <<now, held, heldFor>>
UsersSame == UNCHANGED <<users, nextUserId>>
ProductsSame == UNCHANGED <<products, nextProductId>>

\* the request is answered in this step and awaits nothing
Answer(resp) == last' = resp /\ UNCHANGED inflight
\* the request awaits its statement
Await(req) == inflight' = [inflight EXCEPT ![FreeSlot] = req] /\ last' = NoResp
\* the awaited statement has run and the request in slot s is answered
Finish(s, resp) == inflight' = [inflight EXCEPT ![s] = NoReq] /\ last' = resp

\* a rejected promise nothing catches inside an async handler: Express 5
\* passes it to the error handler (500), Express 4 never learns of it and
\* the request stays unanswered
Unhandled(req, express5, ran, failed) ==
  IF express5
  THEN Resp(req, 500, "Something went wrong", NoRow, NoToken, ran, failed)
  ELSE Resp(req, 0, "", NoRow, NoToken, ran, failed)

\* ------------------------------------------------------- /auth/register
\* if (!email || !password)
RegisterMissingMutant(email, password) == ~Truthy(email) /\ ~Truthy(password)
RegisterMissing(email, password) == ~Truthy(email) \/ ~Truthy(password)

\* users.email is unique: the INSERT of an email some row holds is an error
EmailTaken(rows, email) == \E u \in rows : u.email = email

\* try { INSERT ... RETURNING id, email; res.json(row) } catch { 500 }
RegisterAnswer(req, err, row) ==
  IF err
  THEN Resp(req, 500, "Registration failed", NoRow, NoToken, TRUE, TRUE)
  ELSE [Resp(req, 200, "", NoRow, NoToken, TRUE, FALSE) EXCEPT !.user = row]

\* POST /auth/register up to the INSERT: the check of the body and bcrypt.hash
Register(in) ==
  \E email \in in.emails, password \in in.passwords, express5 \in BOOLEAN :
    LET req == [NoReq EXCEPT !.kind = "register", !.email = email,
                             !.password = password] IN
    /\ Free(in.cap)
    /\ IF RegisterMissing(email, password)
       THEN Answer(Resp(req, 400, "Email and password required", NoRow, NoToken,
                        FALSE, FALSE))
       ELSE IF BcryptRejects(password)
            THEN Answer(Unhandled(req, express5, FALSE, FALSE))
            ELSE Await(req)
    /\ UsersSame /\ ProductsSame /\ AuthSame /\ Quiet

\* the INSERT INTO users and the answer
RegisterInsert ==
  \E s \in Busy, fail \in BOOLEAN :
    LET req == inflight[s]
        email == req.email.s
        err == fail \/ EmailTaken(users, email)
        row == [id |-> nextUserId, email |-> email] IN
    /\ req.kind = "register"
    /\ err \/ nextUserId <= MaxUsers
    /\ users' = IF err THEN users
                ELSE users \cup {[id |-> nextUserId, email |-> email,
                                  password |-> BcryptHash(req.password)]}
    /\ nextUserId' = IF err THEN nextUserId ELSE nextUserId + 1
    /\ Finish(s, RegisterAnswer(req, err, row))
    /\ ProductsSame /\ AuthSame /\ Quiet

\* ---------------------------------------------------------- /auth/login
\* SELECT * FROM users WHERE email=$1 (no row equals an absent email)
SelectByEmail(rows, email) ==
  {u \in rows : email.t = "string" /\ u.email = email.s}

\* the handler after the SELECT: not found, bcrypt.compare, jwt.sign
LoginAnswer(req, rows, t, express5) ==
  IF rows = {}
  THEN Resp(req, 400, "User not found", NoRow, NoToken, TRUE, FALSE)
  ELSE LET u == CHOOSE u \in rows : TRUE IN
       IF BcryptRejects(req.password)
       THEN Unhandled(req, express5, TRUE, FALSE)
       ELSE IF ~BcryptCompare(req.password, u.password)
            THEN Resp(req, 400, "Invalid password", NoRow, NoToken, TRUE, FALSE)
            ELSE Resp(req, 200, "", NoRow, JwtSign(u.id, t), TRUE, FALSE)

\* POST /auth/login up to the SELECT
Login(in) ==
  \E email \in in.emails, password \in in.passwords :
    /\ Free(in.cap)
    /\ Await([NoReq EXCEPT !.kind = "login", !.email = email,
                           !.password = password])
    /\ UsersSame /\ ProductsSame /\ AuthSame /\ Quiet

\* the SELECT, awaited outside any try, and the rest of the handler
LoginSelect ==
  \E s \in Busy, fail \in BOOLEAN, express5 \in BOOLEAN :
    LET req == inflight[s]
        resp == IF fail THEN Unhandled(req, express5, TRUE, TRUE)
                ELSE LoginAnswer(req, SelectByEmail(users, req.email), now, express5) IN
    /\ req.kind = "login"
    /\ Finish(s, resp)
    /\ held' = IF resp.token # NoToken THEN resp.token ELSE held
    /\ heldFor' = IF resp.token # NoToken THEN req.email.s ELSE heldFor
    /\ UNCHANGED now
    /\ UsersSame /\ ProductsSame /\ Quiet

\* ------------------------------------------------- the SQL on products
\* SELECT * FROM products WHERE id=$1
SelectById(rows, id) == {r \in rows : r.id = id}

\* INSERT INTO products (name, price) VALUES ($1, $2): id from the sequence
InsertedRowMutant(rows, seq, name, price) ==
  [id |-> IF rows = {} THEN 1
          ELSE 1 + CHOOSE m \in {r.id : r \in rows} : \A r \in rows : r.id <= m,
   name |-> name, price |-> price]
InsertedRow(rows, seq, name, price) == [id |-> seq, name |-> name, price |-> price]

\* UPDATE products SET name=$1, price=$2 WHERE id=$3
UpdateByIdMutant(rows, id, name, price) ==
  {[r EXCEPT !.name = name, !.price = price] : r \in rows}
UpdateById(rows, id, name, price) ==
  {IF r.id = id THEN [r EXCEPT !.name = name, !.price = price] ELSE r : r \in rows}

\* DELETE FROM products WHERE id=$1
DeleteByIdMutant(rows, id) == rows
DeleteById(rows, id) == {r \in rows : r.id # id}

\* a product request after the middleware: req.userId is attached (authAt is
\* the clock value the middleware ran at)
Passed(req, userId) == [req EXCEPT !.userId = userId]

Denied(req, g) == Resp(req, g.status, g.msg, NoRow, NoToken, FALSE, FALSE)

\* ---------------------------------------------------------- GET /products
ListProducts(in) ==
  \E hdr \in HeadersOf(in.hdrs) :
    LET req == [NoReq EXCEPT !.kind = "list", !.authAt = now, !.hdr = hdr]
        g == Gate("list", hdr, now) IN
    /\ Free(in.cap)
    /\ IF ~g.next THEN Answer(Denied(req, g))
       ELSE Await(Passed(req, g.userId))
    /\ UsersSame /\ ProductsSame /\ AuthSame /\ Quiet

ListQuery ==
  \E s \in Busy, fail \in BOOLEAN :
    LET req == inflight[s] IN
    /\ req.kind = "list"
    /\ Finish(s, IF fail
                 THEN Resp(req, 500, "Database query failed", NoRow, NoToken, TRUE, TRUE)
                 ELSE [Resp(req, 200, "", NoRow, NoToken, TRUE, FALSE)
                         EXCEPT !.rows = products])
    /\ UsersSame /\ ProductsSame /\ AuthSame /\ Quiet

\* ------------------------------------------------------ GET /products/:id
GetProduct(in) ==
  \E hdr \in HeadersOf(in.hdrs), id \in in.ids :
    LET req == [NoReq EXCEPT !.kind = "get", !.authAt = now, !.hdr = hdr, !.id = id]
        g == Gate("get", hdr, now) IN
    /\ Free(in.cap)
    /\ IF ~g.next THEN Answer(Denied(req, g))
       ELSE Await(Passed(req, g.userId))
    /\ UsersSame /\ ProductsSame /\ AuthSame /\ Quiet

GetQuery ==
  \E s \in Busy, fail \in BOOLEAN :
    LET req == inflight[s]
        err == fail \/ ~req.id.digits
        rows == SelectById(products, req.id.n) IN
    /\ req.kind = "get"
    /\ Finish(s, IF err
                 THEN Resp(req, 500, "Database query failed", NoRow, NoToken, TRUE, TRUE)
                 ELSE IF rows = {}
                      THEN Resp(req, 404, "Product not found", NoRow, NoToken, TRUE, FALSE)
                      ELSE Resp(req, 200, "", CHOOSE r \in rows : TRUE, NoToken,
                                TRUE, FALSE))
    /\ UsersSame /\ ProductsSame /\ AuthSame /\ Quiet

\* --------------------------------------------------------- POST /products
\* the two checks of the body, shared by POST and PUT: the message of the
\* 400, or "" when the body passes
ValidateMutant(name, price) ==
  IF InvalidName(name) THEN "Invalid name"
  ELSE IF IsNaN(price) THEN "Invalid price"
  ELSE ""
Validate(name, price) ==
  IF InvalidName(name) THEN "Invalid name"
  ELSE IF InvalidPrice(price) THEN "Invalid price"
  ELSE ""

CreateProduct(in) ==
  \E hdr \in HeadersOf(in.hdrs), name \in in.names, price \in in.prices :
    LET req == [NoReq EXCEPT !.kind = "create", !.authAt = now, !.hdr = hdr, !.name = name,
                             !.price = price]
        g == Gate("create", hdr, now)
        bad == Validate(name, price) IN
    /\ Free(in.cap)
    /\ IF ~g.next THEN Answer(Denied(req, g))
       ELSE IF bad # ""
            THEN Answer(Resp(Passed(req, g.userId), 400, bad, NoRow, NoToken,
                             FALSE, FALSE))
            ELSE Await(Passed(req, g.userId))
    /\ UsersSame /\ ProductsSame /\ AuthSame /\ Quiet

CreateInsert ==
  \E s \in Busy, fail \in BOOLEAN :
    LET req == inflight[s]
        p == PriceParam(req.price)
        err == fail \/ p.err
        row == InsertedRow(products, nextProductId, req.name.s, p.val) IN
    /\ req.kind = "create"
    /\ err \/ nextProductId <= MaxProducts
    /\ products' = IF err THEN products ELSE products \cup {row}
    /\ nextProductId' = IF err THEN nextProductId ELSE nextProductId + 1
    /\ Finish(s, IF err
                 THEN Resp(req, 500, "Database insert failed", NoRow, NoToken, TRUE, TRUE)
                 ELSE Resp(req, 200, "", row, NoToken, TRUE, FALSE))
    /\ UsersSame /\ AuthSame /\ Quiet

\* ------------------------------------------------------ PUT /products/:id
UpdateProduct(in) ==
  \E hdr \in HeadersOf(in.hdrs), id \in in.ids, name \in in.names, price \in in.prices :
    LET req == [NoReq EXCEPT !.kind = "update", !.authAt = now, !.hdr = hdr, !.id = id,
                             !.name = name, !.price = price]
        g == Gate("update", hdr, now)
        bad == Validate(name, price) IN
    /\ Free(in.cap)
    /\ IF ~g.next THEN Answer(Denied(req, g))
       ELSE IF bad # ""
            THEN Answer(Resp(Passed(req, g.userId), 400, bad, NoRow, NoToken,
                             FALSE, FALSE))
            ELSE Await(Passed(req, g.userId))
    /\ UsersSame /\ ProductsSame /\ AuthSame /\ Quiet

UpdateQuery ==
  \E s \in Busy, fail \in BOOLEAN :
    LET req == inflight[s]
        p == PriceParam(req.price)
        err == fail \/ p.err \/ ~req.id.digits
        hit == SelectById(products, req.id.n)
        after == UpdateById(products, req.id.n, req.name.s, p.val) IN
    /\ req.kind = "update"
    /\ products' = IF err THEN products ELSE after
    /\ Finish(s, IF err
                 THEN Resp(req, 500, "Database update failed", NoRow, NoToken, TRUE, TRUE)
                 ELSE IF hit = {}
                      THEN Resp(req, 404, "Product not found", NoRow, NoToken, TRUE, FALSE)
                      ELSE Resp(req, 200, "",
                                CHOOSE r \in SelectById(after, req.id.n) : TRUE,
                                NoToken, TRUE, FALSE))
    /\ UNCHANGED nextProductId
    /\ UsersSame /\ AuthSame /\ Quiet

\* --------------------------------------------------- DELETE /products/:id
DeleteProduct(in) ==
  \E hdr \in HeadersOf(in.hdrs), id \in in.ids :
    LET req == [NoReq EXCEPT !.kind = "delete", !.authAt = now, !.hdr = hdr, !.id = id]
        g == Gate("delete", hdr, now) IN
    /\ Free(in.cap)
    /\ IF ~g.next THEN Answer(Denied(req, g))
       ELSE Await(Passed(req, g.userId))
    /\ UsersSame /\ ProductsSame /\ AuthSame /\ Quiet

DeleteQuery ==
  \E s \in Busy, fail \in BOOLEAN :
    LET req == inflight[s]
        err == fail \/ ~req.id.digits
        id == req.id.n
        hit == SelectById(products, id) IN
    /\ req.kind = "delete"
    /\ products' = IF err THEN products ELSE DeleteById(products, id)
    /\ Finish(s, IF err
                 THEN Resp(req, 500, "Database delete failed", NoRow, NoToken, TRUE, TRUE)
                 ELSE IF hit = {}
                      THEN Resp(req, 404, "Product not found", NoRow, NoToken, TRUE, FALSE)
                      ELSE Resp(req, 200, "", CHOOSE r \in hit : TRUE, NoToken,
                                TRUE, FALSE))
    /\ delOk' = IF ~err /\ hit # {} /\ id \in Ids
                THEN [delOk EXCEPT ![id] = IF @ >= 2 THEN 2 ELSE @ + 1] ELSE delOk
    /\ delRan' = IF ~err /\ id < nextProductId THEN delRan \cup {id} ELSE delRan
    /\ UNCHANGED nextProductId
    /\ UsersSame /\ AuthSame

\* ------------------------------------------------------------- the clock
Tick ==
  /\ now < MaxTime
  /\ now' = now + 1
  /\ last' = NoResp
  /\ UNCHANGED <<held, heldFor, inflight>>
  /\ UsersSame /\ ProductsSame /\ Quiet

\* ------------------------------------------------------ specifications
AuthRequests(in) ==
  \/ Register(in) \/ RegisterInsert
  \/ Login(in) \/ LoginSelect

ReadRequests(in) ==
  \/ ListProducts(in) \/ ListQuery
  \/ GetProduct(in) \/ GetQuery

WriteRequests(in) ==
  \/ CreateProduct(in) \/ CreateInsert
  \/ UpdateProduct(in) \/ UpdateQuery
  \/ DeleteProduct(in) \/ DeleteQuery

\* one client at a time, holding a token, every shape of body
Next == AuthRequests(BodyInputs) \/ ReadRequests(BodyInputs) \/ WriteRequests(BodyInputs)
Spec == Init /\ [][Next]_vars

\* one client at a time, every shape of header, and the clock
NextAuth ==
  AuthRequests(AuthInputs) \/ ReadRequests(AuthInputs) \/ WriteRequests(AuthInputs)
    \/ Tick
SpecAuth == Init /\ [][NextAuth]_vars

\* one client at a time, every shape of credentials
NextLogin == AuthRequests(LoginInputs)
SpecLogin == Init /\ [][NextLogin]_vars

\* registrations in flight together
NextRegister == Register(RegisterInputs) \/ RegisterInsert
SpecRegister == Init /\ [][NextRegister]_vars

\* creates, updates and deletes in flight together
NextConc == AuthRequests(ConcInputs) \/ WriteRequests(ConcInputs)
SpecConc == Init /\ [][NextConc]_vars

\* ================================================================ claims
\* the header carries a token a login signed, not expired at clock value t
Verified(hdr, t) ==
  hdr.scheme = "bearer" /\ hdr.tok.sig = "secret" /\ t < hdr.tok.iat + ExpiresIn

\* C1: on every product route a statement runs (or awaits running) and a
\* response other than 401 is sent only for a request whose bearer token the
\* middleware verified; any other request gets 401 and runs no statement.
C1_RouteGating ==
  /\ \A s \in Slots :
       inflight[s].kind \in ProductKinds
         => Verified(inflight[s].hdr, inflight[s].authAt)
  /\ last.req.kind \in ProductKinds
       => /\ (last.ran \/ last.status # 401)
               => Verified(last.req.hdr, last.req.authAt)
          /\ ~Verified(last.req.hdr, last.req.authAt)
               => last.status = 401 /\ ~last.ran

C1_Witness ==
  /\ last.req.kind = "delete"
  /\ last.status = 200
  /\ last.ran
  /\ Verified(last.req.hdr, last.req.authAt)

\* C2: a product request carrying the token of a login is let through at every
\* clock value before the login's time plus seven days, with req.userId the id
\* of the user who logged in, and is answered 401 from then on.
C2_TokenWindow ==
  (last.req.kind \in ProductKinds /\ held # NoToken /\ last.req.hdr = Bearer(held))
    => /\ last.req.authAt < held.iat + ExpiresIn
            => /\ last.status # 401
               /\ \E u \in users : u.email = heldFor /\ u.id = last.req.userId
       /\ last.req.authAt >= held.iat + ExpiresIn => last.status = 401

C2_Witness ==
  /\ last.req.kind \in ProductKinds
  /\ held # NoToken
  /\ last.req.hdr = Bearer(held)
  /\ last.req.authAt >= held.iat + ExpiresIn
  /\ last.status = 401
  /\ held.userId = 2

\* a row of users holds this email
Registered(email) == \E u \in users : email.t = "string" /\ u.email = email.s
\* a row of users holds this email with the hash of this password
Matches(email, password) ==
  \E u \in users :
    /\ email.t = "string" /\ u.email = email.s
    /\ password.t = "string" /\ u.password.of = password.s

\* C3: a login whose SELECT ran hands out a token only when a row holds the
\* email and the password matches its hash; a registered email with any other
\* password gets 400 "Invalid password", an unknown email 400 "User not found".
C3_LoginChecks ==
  (last.req.kind = "login" /\ ~last.failed)
    => /\ (last.token # NoToken \/ last.status = 200)
            => Matches(last.req.email, last.req.password)
       /\ (Registered(last.req.email) /\ ~Matches(last.req.email, last.req.password))
            => /\ last.status = 400
               /\ last.msg = "Invalid password"
               /\ last.token = NoToken
       /\ ~Registered(last.req.email)
            => /\ last.status = 400
               /\ last.msg = "User not found"
               /\ last.token = NoToken

\* C4: every row of products has a non-empty name and a price that is a
\* number >= 0.
C4_RowsValid ==
  \A r \in products : r.name # "" /\ ~r.price.null /\ r.price.n >= 0

\* the body of a create the claim C5 is about
NegativePrice(price) == price.t = "number" /\ price.n < 0
EmptyName(name) == name.t = "string" /\ name.s = ""

\* what the step that answers such a create does
C5_Step ==
  (last'.req.kind = "create"
     /\ (NegativePrice(last'.req.price) \/ EmptyName(last'.req.name)))
    => /\ Verified(last'.req.hdr, last'.req.authAt) => last'.status = 400
       /\ ~last'.ran
       /\ products' = products
       /\ nextProductId' = nextProductId
       /\ inflight' = inflight

\* C5: a create with a negative price or an empty name that passes the
\* middleware is answered 400, and whether it passes or not its step runs no
\* INSERT: the table is the same after it.
C5_CreateRejected == [][C5_Step]_vars

C5_Witness ==
  /\ last.req.kind = "create"
  /\ last.status = 400
  /\ NegativePrice(last.req.price)
  /\ ~EmptyName(last.req.name)
  /\ Verified(last.req.hdr, last.req.authAt)

\* C6: a request whose statement failed is answered 500.
C6_FailuresAnswered == last.failed => last.status = 500

\* the body of an update the claim C7 is about: a name and a price the spec
\* calls valid
ValidBody(req) ==
  /\ req.name.t = "string" /\ req.name.s # ""
  /\ req.price.t = "number" /\ req.price.n >= 0

\* what the step that answers such an update does
C7_Step ==
  LET req == last'.req
      id == req.id.n IN
  (req.kind = "update" /\ ValidBody(req) /\ last'.status # 401 /\ ~last'.failed)
    => /\ last'.ran
       /\ (\A r \in products : r.id # id)
            => last'.status = 404 /\ products' = products
       /\ (\E r \in products : r.id = id)
            => /\ last'.status = 200
               /\ last'.row = [id |-> id, name |-> req.name.s,
                               price |-> NumPrice(req.price.n)]
               /\ last'.row \in products'
               /\ {r \in products' : r.id # id} = {r \in products : r.id # id}
               /\ {r.id : r \in products'} = {r.id : r \in products}
               /\ Cardinality(products') = Cardinality(products)

\* C7: an update with a valid body that passes the middleware and whose
\* statement runs: if no row has the id it is answered 404 and the table is
\* unchanged; if a row has it, that row gets the name and the price and keeps
\* its id, and every other row stays as it was.
C7_UpdateFrame == [][C7_Step]_vars

C7_Witness ==
  /\ last.req.kind = "update"
  /\ last.status = 404
  /\ last.ran
  /\ ValidBody(last.req)
  /\ products # {}

\* ids a delete request was answered with success for
Deleted == {i \in Ids : delOk[i] > 0}

\* C8: once a delete of an id was answered with success, no row has the id
\* again, and a getById of it whose statement runs is answered 404.
C8_DeletedStaysGone ==
  /\ \A r \in products : r.id \notin Deleted
  /\ (last.req.kind = "get" /\ last.ran /\ ~last.failed
        /\ last.req.id.n \in Deleted)
       => last.status = 404

C8_Witness ==
  /\ last.req.kind = "get"
  /\ last.ran
  /\ last.req.id.n \in Deleted
  /\ last.status = 404
  /\ nextProductId > last.req.id.n + 1

\* a field of the body that is absent (or the empty string)
Absent(v) == v.t = "undefined" \/ (v.t = "string" /\ v.s = "")

\* the answers to register and the rows of users, in a state and over a step
C9_State ==
  /\ (last.req.kind = "register"
        /\ (Absent(last.req.email) \/ Absent(last.req.password)))
       => last.status = 400 /\ ~last.ran
  /\ \A u, v \in users : u.email = v.email => u = v
C9_Step ==
  /\ \A s \in Slots :
       (inflight[s].kind = "register" /\ inflight'[s] = NoReq
          /\ \E u \in users : u.email = inflight[s].email.s)
         => /\ last'.status = 500
            /\ last'.msg = "Registration failed"
            /\ users' = users
  /\ (last'.req.kind = "register" /\ last'.status = 400) => users' = users

\* C9: a register without email or password is answered 400 and runs no
\* INSERT; no two rows of users share an email; and the step of a register
\* whose email some row holds answers 500 "Registration failed" and leaves
\* the table as it was.
C9_Register == []C9_State /\ [][C9_Step]_vars

\* a second register of an email is refused while the first has its row
C9_Witness ==
  /\ last.req.kind = "register"
  /\ last.status = 500
  /\ ~(\E s \in Slots : inflight[s] # NoReq)
  /\ Cardinality(users) = 1
  /\ \E u \in users : u.email = last.req.email.s

\* the deletes counted so far, and what a step that answers a delete or an
\* update does
C10_State ==
  \A i \in Ids :
    /\ delOk[i] <= 1
    /\ i \in delRan => delOk[i] = 1 /\ \A r \in products : r.id # i
C10_Step ==
  LET req == last'.req IN
  /\ (req.kind = "delete" /\ last'.ran /\ ~last'.failed)
       => \/ /\ last'.status = 200
             /\ last'.row \in products
             /\ last'.row.id = req.id.n
             /\ products' = products \ {last'.row}
          \/ /\ last'.status = 404
             /\ \A r \in products : r.id # req.id.n
             /\ products' = products
  /\ (req.kind = "update" /\ last'.ran /\ ~last'.failed)
       => \/ /\ last'.status = 200
             /\ last'.row.id = req.id.n
             /\ last'.row.name = req.name.s
             /\ last'.row \in products'
          \/ /\ last'.status = 404
             /\ \A r \in products : r.id # req.id.n

\* C10: of the delete statements that run on an id that was generated,
\* exactly one is answered with success, carrying the row, and the others are
\* answered 404; the row is gone once the first has run; an update whose
\* statement runs is answered with the updated row or with 404.
C10_ConcurrentDelete == []C10_State /\ [][C10_Step]_vars

\* one delete of an id is answered with success while another delete of the
\* same id is still awaiting its statement
C10_Witness ==
  /\ last.req.kind = "delete"
  /\ last.status = 200
  /\ \E s \in Slots :
       inflight[s].kind = "delete" /\ inflight[s].id = last.req.id

====
